---- MODULE Spec2Model ----
(***************************************************************************)
(* Model of the utensil-detection system: the length-prefixed frame        *)
(* transport between pi_client.py and server_mac.py, the server's accept   *)
(* loop, the client's capture loop, and the unattended-utensil tracker     *)
(* (pi_client.py and utensil_detector.py).                                 *)
(*                                                                         *)
(* Steps are cut at the blocking calls of the code (connect, accept, recv, *)
(* the detector call together with sendall, cap.read together with         *)
(* sendall); the code between two blocking calls is one action.  Time is   *)
(* counted in whole seconds.                                               *)
(***************************************************************************)
EXTENDS Integers, Sequences, FiniteSets, TLC

----------------------------------------------------------------------------
(* Bounds of the model *)

\* frames a client run sends before the model stops it
MaxFrames == 2
\* client runs (connections made to the server)
MaxRuns == 2
\* empty reads counted in a payload loop (the count saturates)
MaxSpin == 1
\* longest payload an arbitrary peer writes
MaxPayload == 2
\* most instances of one class in a tick
MaxCount == 1
\* last value of the clock
MaxTime == 7
\* most detections in one result
MaxDets == 3

(* Program constants *)

\* struct.calcsize("Q")
PAYLOAD_SIZE == 8
\* recv(4096)
RECV_SIZE == 4096
UNATTENDED_THRESHOLD == 2
ALERT_COOLDOWN == 5

\* the utensil classes the model uses, with their COCO ids (UTENSIL_CLASSES)
Types == {"fork", "knife"}
ClassId(t) == IF t = "fork" THEN 42 ELSE 43
ClassIds == {ClassId(t) : t \in Types}
ClassOf(b) == CHOOSE t \in Types : ClassId(t) = b

\* {}
EmptyDict == [t \in {} |-> 0]

----------------------------------------------------------------------------
(* Python helpers *)

Min(a, b) == IF a < b THEN a ELSE b

\* s[:n]
Take(s, n) == SubSeq(s, 1, Min(n, Len(s)))
\* s[n:]
Drop(s, n) == SubSeq(s, Min(n, Len(s)) + 1, Len(s))

RECURSIVE PackFrom(_, _)
PackFrom(n, k) == IF k = 0 THEN <<>> ELSE <<n % 256>> \o PackFrom(n \div 256, k - 1)

\* struct.pack("Q", n): 8 bytes, native (little-endian) order
Pack(n) == PackFrom(n, PAYLOAD_SIZE)

RECURSIVE UnpackFrom(_)
UnpackFrom(s) == IF s = <<>> THEN 0 ELSE s[1] + 256 * UnpackFrom(Tail(s))

\* struct.unpack that accepts a short buffer
UnpackNeverRaises(s) == FALSE

\* struct.unpack("Q", s)[0]; raises struct.error unless len(s) == 8
UnpackRaises(s) == Len(s) # PAYLOAD_SIZE
Unpack(s) == UnpackFrom(s)

\* message_size + data
Message(payload) == Pack(Len(payload)) \o payload

\* What one recv(4096) can return: any non-empty head of the bytes in flight,
\* at most RECV_SIZE long; b"" once the peer has closed and nothing is left;
\* nothing (the call blocks) while the stream is empty and the peer is open.
RecvOutcomes(stream, peerClosed) ==
    {Take(stream, k) : k \in 1..Min(RECV_SIZE, Len(stream))}
        \cup (IF stream = <<>> /\ peerClosed THEN {<<>>} ELSE {})

----------------------------------------------------------------------------
(* Payloads: pickle.dumps / pickle.loads of frames and of detection results. *)
(* An object is [hands: number of people, dets: sequence of class names];   *)
(* its pickle is one byte for hands followed by one class-id byte per       *)
(* detection.                                                               *)

RECURSIVE SeqsUpTo(_, _)
SeqsUpTo(S, n) ==
    IF n = 0 THEN {<<>>}
    ELSE LET shorter == SeqsUpTo(S, n - 1)
         IN shorter \cup {Append(s, x) : s \in {t \in shorter : Len(t) = n - 1}, x \in S}

\* numbers of people a result can report
HandCounts == {0, 1, 2}

\* what the camera shows in the model: nothing, a fork alone, a fork with a
\* person, a fork and a knife alone
Scenes ==
    {[hands |-> 0, dets |-> <<>>],
     [hands |-> 0, dets |-> <<"fork">>],
     [hands |-> 1, dets |-> <<"fork">>],
     [hands |-> 0, dets |-> <<"fork", "knife">>]}

PickleDumps(obj) == <<obj.hands>> \o [i \in 1..Len(obj.dets) |-> ClassId(obj.dets[i])]

PickleRaises(p) ==
    \/ Len(p) = 0
    \/ p[1] \notin HandCounts
    \/ \E i \in 2..Len(p) : p[i] \notin ClassIds

PickleLoads(p) == [hands |-> p[1], dets |-> [i \in 1..(Len(p) - 1) |-> ClassOf(p[i + 1])]]

\* process_frame(frame, model, pose_model): the detector reports what the frame shows
ProcessFrame(frame) == [hands |-> frame.hands, dets |-> frame.dets]

\* bytes an arbitrary peer may put into a payload
PeerBytes == {0, 42, 255}
PeerPayloads == SeqsUpTo(PeerBytes, MaxPayload)

----------------------------------------------------------------------------
(* The unattended-utensil tracker.  A dict is a function whose domain is   *)
(* its key set.                                                            *)

\* utensil_count[class_name] = utensil_count.get(class_name, 0) + 1, over the detections
CountByClass(dets) ==
    [t \in {dets[i] : i \in 1..Len(dets)} |->
        Cardinality({i \in 1..Len(dets) : dets[i] = t})]

\* utensil_count.keys(): the classes in the order of their first detection
RECURSIVE KeysInOrder(_)
KeysInOrder(dets) ==
    IF dets = <<>> THEN <<>>
    ELSE LET front == KeysInOrder(SubSeq(dets, 1, Len(dets) - 1))
             last == dets[Len(dets)]
         IN  IF \E i \in 1..Len(front) : front[i] = last THEN front ELSE Append(front, last)

\* the sequences of distinct classes
AllOrders ==
    {k \in SeqsUpTo(Types, Cardinality(Types)) :
        \A i, j \in 1..Len(k) : i # j => k[i] # k[j]}

\* the orders in which the keys of a dict with key set S can have been inserted
OrdersOf == [S \in SUBSET Types |-> {k \in AllOrders : {k[i] : i \in 1..Len(k)} = S}]
KeyOrders(S) == OrdersOf[S]

\* the dict d without the keys outside S
Restrict(d, S) == [k \in DOMAIN d \cap S |-> d[k]]

(* pi_client.py *)

\* a classification that calls people without utensils attended
PiStatePeopleAttend(has_utensils, has_hands) ==
    IF has_hands THEN "ATTENDED"
    ELSE IF has_utensils THEN "UNATTENDED"
    ELSE "NOTHING"

PiState(has_utensils, has_hands) ==
    IF ~has_utensils /\ ~has_hands THEN "NOTHING"
    ELSE IF has_utensils /\ ~has_hands THEN "UNATTENDED"
    ELSE IF has_utensils /\ has_hands THEN "ATTENDED"
    ELSE "NOTHING"

\* an alert only once the threshold is exceeded
PiAlertDueLate(first_seen, last_alert, t, current_time) ==
    /\ t \in DOMAIN first_seen
    /\ current_time - first_seen[t] > UNATTENDED_THRESHOLD
    /\ \/ t \notin DOMAIN last_alert
       \/ current_time - last_alert[t] >= ALERT_COOLDOWN

\* a repeat alert only once the cooldown is exceeded
PiAlertDueCooldownLate(first_seen, last_alert, t, current_time) ==
    /\ t \in DOMAIN first_seen
    /\ current_time - first_seen[t] >= UNATTENDED_THRESHOLD
    /\ \/ t \notin DOMAIN last_alert
       \/ current_time - last_alert[t] > ALERT_COOLDOWN

\* an alert whenever the threshold is reached, whatever the last alert
PiAlertDueNoCooldown(first_seen, last_alert, t, current_time) ==
    /\ t \in DOMAIN first_seen
    /\ current_time - first_seen[t] >= UNATTENDED_THRESHOLD

\* the type has an entry and the two nested ifs of the loop body let the alert through
PiAlertDue(first_seen, last_alert, t, current_time) ==
    /\ t \in DOMAIN first_seen
    /\ current_time - first_seen[t] >= UNATTENDED_THRESHOLD
    /\ \/ t \notin DOMAIN last_alert
       \/ current_time - last_alert[t] >= ALERT_COOLDOWN

\* what the speech engine does when an alert is spoken: say/runAndWait return
\* (or there is no engine and nothing is called), or one of them raises
Speech == {"ok", "raises"}

\* a speech call whose exception is not caught
PiSpeakPropagates(speech) == speech = "raises"

\* if tts_engine: try: say, runAndWait; except: pass -- whether an exception
\* leaves the block
PiSpeakRaises(speech) == FALSE

\* a deletion that is not guarded
PiDelUnguarded(first_seen, t) == TRUE

\* an entry that attendance leaves in place
PiDelNever(first_seen, t) == FALSE

\* if utensil_type in utensil_first_seen:
PiDelGuard(first_seen, t) == t \in DOMAIN first_seen

\* d[k] = v
SetKey(d, k, v) == [x \in DOMAIN d \cup {k} |-> IF x = k THEN v ELSE d[x]]
\* del d[k] (the caller has checked that k is a key)
DelKey(d, k) == [x \in DOMAIN d \ {k} |-> d[x]]

\* the body of the for loop for one utensil_type; st is the tracker with the
\* types alerted so far, the ALERT lines printed so far, and the exception, if
\* one has left the loop
PiBody(st, t, current_time, unattended, speech) ==
    IF st.error # "none" THEN st
    ELSE IF unattended
    THEN IF t \notin DOMAIN st.first_seen
         THEN [st EXCEPT !.first_seen = SetKey(@, t, current_time)]
         ELSE IF PiAlertDue(st.first_seen, st.last_alert, t, current_time)
         THEN IF PiSpeakRaises(speech)
              THEN [st EXCEPT !.alerts = @ \cup {t}, !.printed = Append(@, t),
                              !.error = "speech"]
              ELSE [st EXCEPT !.alerts = @ \cup {t}, !.printed = Append(@, t),
                              !.last_alert = SetKey(@, t, current_time)]
         ELSE st
    ELSE IF PiDelGuard(st.first_seen, t)
    THEN IF t \in DOMAIN st.first_seen
         THEN [st EXCEPT !.first_seen = DelKey(@, t)]
         ELSE [st EXCEPT !.error = "KeyError"]
    ELSE st

\* a loop that handles only the first key
PiLoopFirstKey(st, keys, current_time, unattended, speech) ==
    IF keys = <<>> THEN st
    ELSE PiBody(st, Head(keys), current_time, unattended, speech)

\* for utensil_type in utensil_count.keys():
RECURSIVE PiLoop(_, _, _, _, _)
PiLoop(st, keys, current_time, unattended, speech) ==
    IF keys = <<>> THEN st
    ELSE PiLoop(PiBody(st, Head(keys), current_time, unattended, speech),
                Tail(keys), current_time, unattended, speech)

\* a pass that leaves the entries of the types no longer detected
PiRemoveNothing(st, utensil_count) == st

\* a pass that removes entries only when nothing at all is detected
PiRemoveWhenNothing(st, utensil_count) ==
    IF st.error # "none" \/ DOMAIN utensil_count # {} THEN st
    ELSE [st EXCEPT !.first_seen = EmptyDict]

\* utensils_to_remove and the deletions that follow the loop
PiRemove(st, utensil_count) ==
    IF st.error # "none" THEN st
    ELSE LET utensils_to_remove == {u \in DOMAIN st.first_seen : u \notin DOMAIN utensil_count}
         IN  [st EXCEPT !.first_seen = Restrict(@, DOMAIN @ \ utensils_to_remove)]

\* a loop that times the utensils whatever the state
PiTimedAlways(state) == TRUE

\* if state == "UNATTENDED":
PiTimed(state) == state = "UNATTENDED"

\* utensils that count only when a class has several instances
PiHasUtensilsSeveral(utensil_count) == \E t \in DOMAIN utensil_count : utensil_count[t] > 1

\* has_utensils = len(utensil_count) > 0
PiHasUtensils(utensil_count) == Cardinality(DOMAIN utensil_count) > 0

\* one pass of the tracker: the state, the for loop over utensil_count.keys()
\* (in the order keys) and the removal of the types no longer detected
PiTrack(first_seen, last_alert, current_time, utensil_count, hand_count, keys, speech) ==
    LET state == PiState(PiHasUtensils(utensil_count), hand_count > 0)
        st0 == [state |-> state, first_seen |-> first_seen, last_alert |-> last_alert,
                alerts |-> {}, printed |-> <<>>, error |-> "none"]
    IN  PiRemove(PiLoop(st0, keys, current_time, PiTimed(state), speech), utensil_count)

(* utensil_detector.py *)

DetState(has_utensils, has_hands) ==
    IF ~has_utensils /\ ~has_hands THEN "NOTHING"
    ELSE IF has_utensils /\ ~has_hands THEN "UNATTENDED"
    ELSE IF has_utensils /\ has_hands THEN "ATTENDED"
    ELSE "NOTHING"

\* an alert only once the threshold is exceeded
DetAlertDueStrict(first_seen, last_alert, t, current_time) ==
    /\ t \in DOMAIN first_seen
    /\ current_time - first_seen[t] > UNATTENDED_THRESHOLD
    /\ \/ t \notin DOMAIN last_alert
       \/ current_time - last_alert[t] >= ALERT_COOLDOWN

DetAlertDue(first_seen, last_alert, t, current_time) ==
    /\ t \in DOMAIN first_seen
    /\ current_time - first_seen[t] >= UNATTENDED_THRESHOLD
    /\ \/ t \notin DOMAIN last_alert
       \/ current_time - last_alert[t] >= ALERT_COOLDOWN

\* try: say, runAndWait; except: pass
DetSpeakRaises(speech) == FALSE

DetBody(st, t, current_time, unattended, speech) ==
    IF st.error # "none" THEN st
    ELSE IF unattended
    THEN IF t \notin DOMAIN st.first_seen
         THEN [st EXCEPT !.first_seen = SetKey(@, t, current_time)]
         ELSE IF DetAlertDue(st.first_seen, st.last_alert, t, current_time)
         THEN IF DetSpeakRaises(speech)
              THEN [st EXCEPT !.alerts = @ \cup {t}, !.printed = Append(@, t),
                              !.error = "speech"]
              ELSE [st EXCEPT !.alerts = @ \cup {t}, !.printed = Append(@, t),
                              !.last_alert = SetKey(@, t, current_time)]
         ELSE st
    ELSE IF t \in DOMAIN st.first_seen
    THEN [st EXCEPT !.first_seen = DelKey(@, t)]
    ELSE st

RECURSIVE DetLoop(_, _, _, _, _)
DetLoop(st, keys, current_time, unattended, speech) ==
    IF keys = <<>> THEN st
    ELSE DetLoop(DetBody(st, Head(keys), current_time, unattended, speech),
                 Tail(keys), current_time, unattended, speech)

DetRemove(st, utensil_count) ==
    IF st.error # "none" THEN st
    ELSE LET utensils_to_remove == {u \in DOMAIN st.first_seen : u \notin DOMAIN utensil_count}
         IN  [st EXCEPT !.first_seen = Restrict(@, DOMAIN @ \ utensils_to_remove)]

DetTrack(first_seen, last_alert, current_time, utensil_count, hand_count, keys, speech) ==
    LET state == DetState(Cardinality(DOMAIN utensil_count) > 0, hand_count > 0)
        st0 == [state |-> state, first_seen |-> first_seen, last_alert |-> last_alert,
                alerts |-> {}, printed |-> <<>>, error |-> "none"]
    IN  DetRemove(DetLoop(st0, keys, current_time, state = "UNATTENDED", speech), utensil_count)

(* History of the tracker's inputs and outputs, kept beside the program. *)

\* the start of each type's current run of consecutive ticks on which it was
\* detected with no person present, from the inputs alone
SinceAfter(old, current_time, present, hand_count) ==
    IF hand_count = 0
    THEN [t \in present |-> IF t \in DOMAIN old THEN old[t] ELSE current_time]
    ELSE EmptyDict

\* the last two alert times of each type
LogAfter(log, alerted, current_time) ==
    [t \in Types |->
        IF t \in alerted
        THEN (IF Len(log[t]) < 2 THEN Append(log[t], current_time)
              ELSE <<log[t][2], current_time>>)
        ELSE log[t]]

----------------------------------------------------------------------------
(* State *)

VARIABLES
    \* network, one connection per client run r
    c2s,            \* r -> bytes written by the client end, not yet read by the server end
    s2c,            \* r -> bytes written by the server end, not yet read by the client end
    c_end,          \* r -> "none" | "open" | "closed": the client's socket
    s_end,          \* r -> "none" | "pending" | "open" | "closed": the server's socket for r
    \* pi_client.py main
    c_pc,           \* "stopped" | "capture" | "recv_size" | "recv_payload" | "process" | "peer"
    c_run,          \* number of the current (last) client run
    c_data,         \* data
    c_msg_size,     \* msg_size
    c_result_data,  \* result_data
    c_frame_count,  \* frame_count
    c_exit,         \* why the last run left main
    c_event,        \* what the last step of the client did
    utensil_first_seen,
    last_alert_time,
    \* server_mac.py main
    s_pc,           \* "accept" | "recv_size" | "recv_payload" | "process" | "peer"
    s_conn,         \* the connection client_socket belongs to (0: none yet)
    s_data,         \* data
    s_msg_size,     \* msg_size
    s_frame_data,   \* frame_data
    s_frame_count,  \* frame_count
    s_exit,         \* how the last session ended
    \* utensil_detector.py main
    d_first_seen,
    d_last_alert,
    \* time.time()
    now,
    \* history
    sent,           \* payloads of the frames fully written by the client in this run
    got,            \* frame_data values the server handed to pickle.loads in this session
    replied,        \* payloads of the results fully written by the server in this session
    recvd,          \* result_data values the client handed to pickle.loads in this run
    c_spin,         \* empty reads the client's payload loop has seen in this receive
    s_spin,         \* empty reads the server's payload loop has seen in this receive
    s_dropped,      \* bytes of the old buffer that the last accept discarded
    r_first_seen,   \* utensil_first_seen of a second run of pi_client.py given the same ticks
    r_last_alert,   \* last_alert_time of that run
    ended,          \* type -> how its last unattended period ended: "attended" | "gone" | "none"
    tick,           \* what the last tracker update was given and what it did
    since,          \* type -> time of the first tick of its current unattended period
    alert_log,      \* program -> type -> times of its last two alerts
    limits          \* how far this behaviour is explored: client runs, frames per run

net == <<c2s, s2c, c_end, s_end>>
cli == <<c_pc, c_run, c_data, c_msg_size, c_result_data, c_frame_count, c_exit, c_event, c_spin>>
trk == <<utensil_first_seen, last_alert_time>>
srv == <<s_pc, s_conn, s_data, s_msg_size, s_frame_data, s_frame_count, s_exit, s_spin, s_dropped>>
det == <<d_first_seen, d_last_alert>>
rerun == <<r_first_seen, r_last_alert>>
hist == <<sent, got, replied, recvd>>
ghost == <<tick, since, alert_log, ended, limits>>
vars == <<net, cli, trk, srv, det, rerun, now, hist, ghost>>

Runs == 1..MaxRuns
NoTick == [kind |-> "none"]
Programs == {"pi_client", "utensil_detector"}
NoAlerts == [p \in Programs |-> [t \in Types |-> <<>>]]
NoneEnded == [t \in Types |-> "none"]

InitCommon ==
    /\ c2s = [r \in Runs |-> <<>>]
    /\ s2c = [r \in Runs |-> <<>>]
    /\ c_end = [r \in Runs |-> "none"]
    /\ s_end = [r \in Runs |-> "none"]
    /\ c_run = 0
    /\ c_data = <<>>
    /\ c_msg_size = 0
    /\ c_result_data = <<>>
    /\ c_frame_count = 0
    /\ c_exit = "none"
    /\ c_event = "none"
    /\ utensil_first_seen = EmptyDict
    /\ last_alert_time = EmptyDict
    /\ s_conn = 0
    /\ s_data = <<>>
    /\ s_msg_size = 0
    /\ s_frame_data = <<>>
    /\ s_frame_count = 0
    /\ s_exit = "none"
    /\ d_first_seen = EmptyDict
    /\ d_last_alert = EmptyDict
    /\ now = 0
    /\ sent = <<>>
    /\ got = <<>>
    /\ replied = <<>>
    /\ recvd = <<>>
    /\ c_spin = 0
    /\ s_spin = 0
    /\ s_dropped = 0
    /\ r_first_seen = EmptyDict
    /\ r_last_alert = EmptyDict
    /\ ended = NoneEnded
    /\ tick = NoTick
    /\ since = EmptyDict
    /\ alert_log = NoAlerts

\* the server is listening, no client has been started
\* explored: MaxRuns client runs of one frame each, or one run of MaxFrames frames
Init ==
    /\ InitCommon
    /\ c_pc = "stopped"
    /\ s_pc = "accept"
    /\ limits \in {[runs |-> MaxRuns, frames |-> 1], [runs |-> 1, frames |-> MaxFrames]}

----------------------------------------------------------------------------
(* pi_client.py main *)

\* the finally block: client_socket.close(); what the server wrote and the
\* client never read is gone with the socket
ClientFinally(reason) ==
    /\ c_pc' = "stopped"
    /\ c_exit' = reason
    /\ c_end' = [c_end EXCEPT ![c_run] = "closed"]
    /\ s2c' = [s2c EXCEPT ![c_run] = <<>>]

\* bytes written to a connection reach the peer's stream unless the peer's
\* socket is already closed
Written(stream, bytes, peerEnd) == IF peerEnd = "closed" THEN stream ELSE stream \o bytes

\* a payload loop that is left one byte early
ClientPayloadDoneEarly(data, msg_size, packet) == Len(data) + 1 >= msg_size

\* while len(data) < msg_size: the loop is left when the buffer holds msg_size bytes
ClientPayloadDone(data, msg_size, packet) == Len(data) >= msg_size

\* a client that sends the next frame without waiting for the result
ClientAfterSendPipelined == "capture"

\* after sendall the loop body goes on to receive the result of that frame
ClientAfterSend == "recv_size"

\* a start that goes on to the capture loop whatever connect did
ClientAfterConnectGoesOn(outcome) == "capture"

\* connect raised: the except branch returns; the camera did not open: return;
\* otherwise the capture loop is entered
ClientAfterConnect(outcome) == IF outcome = "connected" THEN "capture" ELSE "stopped"

\* the program is started: connect, open the camera, empty tracker
ClientStart ==
    /\ c_pc = "stopped"
    /\ c_run < limits.runs
    /\ c_run' = c_run + 1
    /\ \E outcome \in {"connected", "connect_failed", "camera_failed"} :
        /\ c_end' = [c_end EXCEPT ![c_run + 1] =
                        CASE outcome = "connected" -> "open"
                          [] outcome = "connect_failed" -> "none"
                          [] OTHER -> "closed"]
        /\ s_end' = [s_end EXCEPT ![c_run + 1] =
                        IF outcome = "connect_failed" THEN "none" ELSE "pending"]
        /\ c_pc' = ClientAfterConnect(outcome)
        /\ c_exit' = IF outcome = "connected" THEN "none" ELSE outcome
    /\ c_event' = "start"
    /\ c_data' = <<>>
    /\ c_msg_size' = 0
    /\ c_result_data' = <<>>
    /\ c_frame_count' = 0
    /\ c_spin' = 0
    /\ utensil_first_seen' = EmptyDict
    /\ last_alert_time' = EmptyDict
    /\ tick' = NoTick
    /\ since' = EmptyDict
    /\ alert_log' = NoAlerts
    /\ ended' = NoneEnded
    /\ sent' = <<>>
    /\ recvd' = <<>>
    /\ UNCHANGED <<c2s, s2c, srv, det, rerun, now, got, replied, limits>>

\* a failed capture after which the loop body goes on to the receive
ClientAfterFailedCaptureReceives == "recv_size"

\* if not ret: print, continue -- the next cap.read()
ClientAfterFailedCapture == "capture"

\* cap.read(), then pickle.dumps, struct.pack and sendall
ClientCapture ==
    /\ c_pc = "capture"
    /\ \/ \* ret is false: continue
          /\ c_event' = "capture_failed"
          /\ c_pc' = ClientAfterFailedCapture
          /\ UNCHANGED <<net, c_run, c_data, c_msg_size, c_result_data,
                         c_frame_count, c_exit, c_spin, hist>>
       \/ \E frame \in Scenes :
            /\ Len(sent) < limits.frames
            /\ \/ \* sendall returns
                  /\ c2s' = [c2s EXCEPT ![c_run] =
                                Written(@, Message(PickleDumps(frame)), s_end[c_run])]
                  /\ sent' = Append(sent, PickleDumps(frame))
                  /\ c_pc' = ClientAfterSend
                  /\ c_event' = "sent"
                  /\ c_data' = <<>>
                  /\ c_spin' = 0
                  /\ UNCHANGED <<s2c, c_end, s_end, c_run, c_msg_size, c_result_data,
                                 c_frame_count, c_exit, got, replied, recvd>>
               \/ \* sendall raises: the server's socket is closed
                  /\ s_end[c_run] = "closed"
                  /\ ClientFinally("send_error")
                  /\ c_event' = "send_failed"
                  /\ UNCHANGED <<c2s, s_end, c_run, c_data, c_msg_size, c_result_data,
                                 c_frame_count, c_spin, hist>>
    /\ UNCHANGED <<trk, srv, det, rerun, now, ghost>>

\* KeyboardInterrupt (Ctrl-C) while the client is in cap.read/sendall or in a
\* recv: sendall stops after part of the message, the handler and the finally
\* block run
ClientInterrupt ==
    /\ c_pc \in {"capture", "recv_size", "recv_payload"}
    /\ \E frame \in Scenes :
        \E k \in 0..(IF c_pc = "capture" THEN Len(Message(PickleDumps(frame))) - 1 ELSE 0) :
            c2s' = [c2s EXCEPT ![c_run] =
                       Written(@, Take(Message(PickleDumps(frame)), k), s_end[c_run])]
    /\ ClientFinally("interrupt")
    /\ c_event' = "interrupted"
    /\ UNCHANGED <<s_end, c_run, c_data, c_msg_size, c_result_data, c_frame_count, c_spin,
                   trk, srv, det, rerun, now, hist, ghost>>

\* one recv(4096) of the loop that reads the length prefix, and the code up
\* to the next recv
ClientRecvSize ==
    /\ c_pc = "recv_size"
    /\ \E packet \in RecvOutcomes(s2c[c_run], s_end[c_run] = "closed") :
        LET data == c_data \o packet
            packed_msg_size == Take(data, PAYLOAD_SIZE)
            rest == Drop(data, PAYLOAD_SIZE)
            msg_size == Unpack(packed_msg_size)
        IN  IF packet # <<>> /\ Len(data) < PAYLOAD_SIZE
            THEN /\ c_data' = data
                 /\ s2c' = [s2c EXCEPT ![c_run] = Drop(@, Len(packet))]
                 /\ c_event' = "recv"
                 /\ UNCHANGED <<c_end, c_pc, c_msg_size, c_result_data, c_exit>>
            ELSE IF UnpackRaises(packed_msg_size)
            THEN /\ c_data' = rest
                 /\ ClientFinally("recv_error")
                 /\ c_event' = "recv_failed"
                 /\ UNCHANGED <<c_msg_size, c_result_data>>
            ELSE /\ c_msg_size' = msg_size
                 /\ c_data' = rest
                 /\ s2c' = [s2c EXCEPT ![c_run] = Drop(@, Len(packet))]
                 /\ c_event' = "recv"
                 /\ IF ClientPayloadDone(rest, msg_size, packet)
                    THEN c_pc' = "process" /\ c_result_data' = Take(rest, msg_size)
                    ELSE c_pc' = "recv_payload" /\ UNCHANGED c_result_data
                 /\ UNCHANGED <<c_end, c_exit>>
    /\ UNCHANGED <<c2s, s_end, c_run, c_frame_count, c_spin, trk, srv, det, rerun, now, hist, ghost>>

\* one recv(4096) of the loop that reads the payload
ClientRecvPayload ==
    /\ c_pc = "recv_payload"
    /\ \E packet \in RecvOutcomes(s2c[c_run], s_end[c_run] = "closed") :
        LET data == c_data \o packet
        IN  /\ c_data' = data
            /\ s2c' = [s2c EXCEPT ![c_run] = Drop(@, Len(packet))]
            /\ c_spin' = IF packet = <<>> THEN Min(c_spin + 1, MaxSpin) ELSE c_spin
            /\ IF ClientPayloadDone(data, c_msg_size, packet)
               THEN c_pc' = "process" /\ c_result_data' = Take(data, c_msg_size)
               ELSE UNCHANGED <<c_pc, c_result_data>>
    /\ c_event' = "recv"
    /\ UNCHANGED <<c2s, c_end, s_end, c_run, c_msg_size, c_frame_count, c_exit,
                   trk, srv, det, rerun, now, hist, ghost>>

\* what one tracker update leaves in the history; ref is the pass of the
\* second run
TickRecord(current_time, utensil_count, hand_count, outs, speech, ref) ==
    [kind |-> "tick", time |-> current_time, present |-> DOMAIN utensil_count,
     count |-> utensil_count, hands |-> hand_count, speech |-> speech,
     state |-> [p \in DOMAIN outs |-> outs[p].state],
     alerts |-> [p \in DOMAIN outs |-> outs[p].alerts],
     printed |-> [p \in DOMAIN outs |-> outs[p].printed],
     error |-> [p \in DOMAIN outs |-> outs[p].error],
     ref |-> [state |-> ref.state, alerts |-> ref.alerts]]

\* time.time() in the capture loop: the clock has not moved since the last
\* frame, or a threshold has gone by
ClockReadings == {t \in {now, now + UNATTENDED_THRESHOLD} : t <= MaxTime}

\* pickle.loads(result_data), the tracker update, frame_count and the quit check
ClientProcess ==
    /\ c_pc = "process"
    /\ recvd' = Append(recvd, c_result_data)
    /\ IF PickleRaises(c_result_data)
       THEN /\ ClientFinally("recv_error")
            /\ c_event' = "recv_failed"
            /\ UNCHANGED <<c_frame_count, trk, now, ghost>>
       ELSE \E current_time \in ClockReadings, key \in {"q", "other"}, speech \in Speech :
            LET results == PickleLoads(c_result_data)
                utensil_count == CountByClass(results.dets)
                hand_count == results.hands
                out == PiTrack(utensil_first_seen, last_alert_time, current_time,
                               utensil_count, hand_count, KeysInOrder(results.dets), speech)
            IN  /\ now' = current_time
                /\ utensil_first_seen' = out.first_seen
                /\ last_alert_time' = out.last_alert
                /\ tick' = TickRecord(current_time, utensil_count, hand_count,
                                      [p \in {"pi_client"} |-> out], speech, out)
                /\ UNCHANGED <<since, alert_log, ended, limits>>
                /\ IF out.error # "none"
                   THEN \* the exception leaves the loop: except Exception, finally
                        /\ ClientFinally("error")
                        /\ c_event' = "failed"
                        /\ UNCHANGED c_frame_count
                   ELSE /\ c_frame_count' = c_frame_count + 1
                        /\ c_event' = "processed"
                        /\ IF key = "q"
                           THEN ClientFinally("quit")
                           ELSE c_pc' = "capture" /\ UNCHANGED <<s2c, c_end, c_exit>>
    /\ UNCHANGED <<c2s, s_end, c_run, c_data, c_msg_size, c_result_data, c_spin,
                   srv, det, rerun, sent, got, replied>>

----------------------------------------------------------------------------
(* server_mac.py main *)

\* a session end that leaves the socket open
ServerFinallyNoClose(reason) ==
    /\ s_pc' = "accept"
    /\ s_exit' = reason
    /\ UNCHANGED <<s_end, c2s>>

\* the finally block: client_socket.close(), then the next accept()
ServerFinally(reason) ==
    /\ s_pc' = "accept"
    /\ s_exit' = reason
    /\ s_end' = [s_end EXCEPT ![s_conn] = "closed"]
    /\ c2s' = [c2s EXCEPT ![s_conn] = <<>>]

\* a payload loop that is also left when recv returns b""
ServerPayloadDoneOrEof(data, msg_size, packet) == Len(data) >= msg_size \/ packet = <<>>

\* while len(data) < msg_size: the loop is left when the buffer holds msg_size bytes
ServerPayloadDone(data, msg_size, packet) == Len(data) >= msg_size

\* from the end of the prefix loop (the buffer holds the prefix) to the next
\* recv or to pickle.loads
ServerAfterPrefix(data, packet) ==
    LET packed_msg_size == Take(data, PAYLOAD_SIZE)
        rest == Drop(data, PAYLOAD_SIZE)
        msg_size == Unpack(packed_msg_size)
    IN  IF ServerPayloadDone(rest, msg_size, packet)
        THEN [pc |-> "process", msg_size |-> msg_size,
              frame_data |-> Take(rest, msg_size), data |-> Drop(rest, msg_size)]
        ELSE [pc |-> "recv_payload", msg_size |-> msg_size,
              frame_data |-> s_frame_data, data |-> rest]

\* a buffer that outlives the session
SessionBufferKept(old) == old

\* what data = b"" does at the start of a session
SessionBuffer(old) == <<>>

\* server_socket.accept() returns the oldest connection of the backlog
ServerAccept ==
    /\ s_pc = "accept"
    /\ \E r \in Runs :
        /\ s_end[r] = "pending"
        /\ \A q \in Runs : q < r => s_end[q] # "pending"
        /\ s_end' = [s_end EXCEPT ![r] = "open"]
        /\ s_conn' = r
    /\ s_pc' = "recv_size"
    /\ s_data' = SessionBuffer(s_data)
    /\ s_frame_count' = 0
    /\ s_spin' = 0
    /\ s_dropped' = Len(s_data)
    /\ got' = <<>>
    /\ replied' = <<>>
    /\ UNCHANGED <<c2s, s2c, c_end, s_msg_size, s_frame_data, s_exit,
                   cli, trk, det, rerun, now, sent, recvd, ghost>>

\* one recv(4096) of the loop that reads the length prefix, and the code up
\* to the next blocking call
ServerRecvSize ==
    /\ s_pc = "recv_size"
    /\ \E packet \in RecvOutcomes(c2s[s_conn], c_end[s_conn] = "closed") :
        LET data == s_data \o packet
            nxt == ServerAfterPrefix(data, packet)
        IN  IF packet # <<>> /\ Len(data) < PAYLOAD_SIZE
            THEN /\ s_data' = data
                 /\ c2s' = [c2s EXCEPT ![s_conn] = Drop(@, Len(packet))]
                 /\ UNCHANGED <<s_end, s_pc, s_msg_size, s_frame_data, s_exit>>
            ELSE IF Len(data) < PAYLOAD_SIZE
            THEN /\ s_data' = data
                 /\ ServerFinally("closed")
                 /\ UNCHANGED <<s_msg_size, s_frame_data>>
            ELSE /\ s_pc' = nxt.pc
                 /\ s_msg_size' = nxt.msg_size
                 /\ s_frame_data' = nxt.frame_data
                 /\ s_data' = nxt.data
                 /\ c2s' = [c2s EXCEPT ![s_conn] = Drop(@, Len(packet))]
                 /\ UNCHANGED <<s_end, s_exit>>
    /\ UNCHANGED <<s2c, c_end, s_conn, s_frame_count, s_spin, s_dropped, cli, trk, det, rerun, now, hist, ghost>>

\* one recv(4096) of the loop that reads the payload
ServerRecvPayload ==
    /\ s_pc = "recv_payload"
    /\ \E packet \in RecvOutcomes(c2s[s_conn], c_end[s_conn] = "closed") :
        LET data == s_data \o packet
        IN  /\ c2s' = [c2s EXCEPT ![s_conn] = Drop(@, Len(packet))]
            /\ s_spin' = IF packet = <<>> THEN Min(s_spin + 1, MaxSpin) ELSE s_spin
            /\ IF ServerPayloadDone(data, s_msg_size, packet)
               THEN /\ s_pc' = "process"
                    /\ s_frame_data' = Take(data, s_msg_size)
                    /\ s_data' = Drop(data, s_msg_size)
               ELSE /\ s_data' = data
                    /\ UNCHANGED <<s_pc, s_frame_data>>
    /\ UNCHANGED <<s2c, c_end, s_end, s_conn, s_msg_size, s_frame_count, s_exit, s_dropped,
                   cli, trk, det, rerun, now, hist, ghost>>

\* a server that writes every result twice
ServerReplyTwice(result_data) == Message(result_data) \o Message(result_data)

\* message_size = struct.pack("Q", len(result_data)); sendall(message_size + result_data)
ServerReply(result_data) == Message(result_data)

\* pickle.loads(frame_data), process_frame, pickle.dumps and sendall, then
\* the top of the per-frame loop
ServerProcess ==
    /\ s_pc = "process"
    /\ got' = Append(got, s_frame_data)
    /\ \/ \* pickle.loads raises, process_frame raises, or sendall raises
          \* (the client's socket is closed)
          /\ \E failure \in {"undecodable", "detector_failed", "send_failed"} :
                /\ failure = "undecodable" <=> PickleRaises(s_frame_data)
                /\ failure = "send_failed" => c_end[s_conn] = "closed"
                /\ ServerFinally(failure)
          /\ UNCHANGED <<s2c, s_data, s_msg_size, s_frame_data, s_frame_count, replied>>
       \/ \* the result is sent
          /\ ~PickleRaises(s_frame_data)
          /\ LET results == ProcessFrame(PickleLoads(s_frame_data))
                 result_data == PickleDumps(results)
                 nxt == ServerAfterPrefix(s_data, <<0>>)
             IN  /\ s2c' = [s2c EXCEPT ![s_conn] =
                               Written(@, ServerReply(result_data), c_end[s_conn])]
                 /\ replied' = Append(replied, result_data)
                 /\ s_frame_count' = s_frame_count + 1
                 /\ IF Len(s_data) < PAYLOAD_SIZE
                    THEN s_pc' = "recv_size" /\ UNCHANGED <<s_data, s_msg_size, s_frame_data>>
                    ELSE /\ s_pc' = nxt.pc
                         /\ s_msg_size' = nxt.msg_size
                         /\ s_frame_data' = nxt.frame_data
                         /\ s_data' = nxt.data
                 /\ UNCHANGED <<c2s, s_end, s_exit>>
    /\ UNCHANGED <<c_end, s_conn, s_spin, s_dropped, cli, trk, det, rerun, now, sent, recvd, ghost>>

----------------------------------------------------------------------------
(* An arbitrary peer at the other end of the socket (specification SpecChan) *)

\* every way of writing a message, or only a head of it
PeerWrites == {[payload |-> P, cut |-> k] : P \in PeerPayloads, k \in 0..(PAYLOAD_SIZE + MaxPayload)}

\* a peer connects to the server and writes a message or a head of one
PeerSend ==
    /\ c_pc = "peer"
    /\ c_run = 0
    /\ c_run' = 1
    /\ c_end' = [c_end EXCEPT ![1] = "open"]
    /\ s_end' = [s_end EXCEPT ![1] = "pending"]
    /\ \E w \in PeerWrites :
        /\ w.cut <= Len(Message(w.payload))
        /\ c2s' = [c2s EXCEPT ![1] = Take(Message(w.payload), w.cut)]
        /\ sent' = IF w.cut = Len(Message(w.payload)) THEN <<w.payload>> ELSE <<>>
    /\ UNCHANGED <<s2c, c_pc, c_data, c_msg_size, c_result_data, c_frame_count, c_exit,
                   c_event, c_spin, trk, srv, det, rerun, now, got, replied, recvd, ghost>>

\* the peer closes its socket
PeerClose ==
    /\ c_pc = "peer"
    /\ c_run = 1
    /\ c_end[1] = "open"
    /\ c_end' = [c_end EXCEPT ![1] = "closed"]
    /\ s2c' = [s2c EXCEPT ![1] = <<>>]
    /\ UNCHANGED <<c2s, s_end, cli, trk, srv, det, rerun, now, hist, ghost>>

\* a peer in the server's place accepts the client's connection and writes a
\* message or a head of one
PeerReply ==
    /\ s_pc = "peer"
    /\ \E r \in Runs :
        /\ s_end[r] = "pending"
        /\ \A q \in Runs : q < r => s_end[q] # "pending"
        /\ s_end' = [s_end EXCEPT ![r] = "open"]
        /\ s_conn' = r
        /\ \E w \in PeerWrites :
            /\ w.cut <= Len(Message(w.payload))
            /\ s2c' = [s2c EXCEPT ![r] = Written(@, Take(Message(w.payload), w.cut), c_end[r])]
            /\ replied' = IF w.cut = Len(Message(w.payload)) THEN <<w.payload>> ELSE <<>>
    /\ UNCHANGED <<c2s, c_end, s_pc, s_data, s_msg_size, s_frame_data, s_frame_count, s_exit,
                   s_spin, s_dropped, cli, trk, det, rerun, now, sent, got, recvd, ghost>>

\* the peer in the server's place closes its socket
PeerServerClose ==
    /\ s_pc = "peer"
    /\ s_conn \in Runs
    /\ s_end[s_conn] = "open"
    /\ s_end' = [s_end EXCEPT ![s_conn] = "closed"]
    /\ c2s' = [c2s EXCEPT ![s_conn] = <<>>]
    /\ UNCHANGED <<s2c, c_end, srv, cli, trk, det, rerun, now, hist, ghost>>

----------------------------------------------------------------------------
(* The two trackers fed the same ticks (specification SpecTracker) *)

UtensilCounts == UNION {[S -> 1..MaxCount] : S \in SUBSET Types}

\* how each type's last unattended period ended, from the inputs alone
EndedAfter(old, before, after, present) ==
    [t \in Types |->
        IF t \in DOMAIN before /\ t \notin DOMAIN after
        THEN (IF t \in present THEN "attended" ELSE "gone")
        ELSE old[t]]

\* the first key order of a dict with key set S
FirstOrderOf == [S \in SUBSET Types |-> CHOOSE k \in KeyOrders(S) : TRUE]
FirstOrder(S) == FirstOrderOf[S]

\* utensil_count with its keys in any order of insertion
CountViews ==
    {v \in [count : UtensilCounts, keys : AllOrders] : v.keys \in KeyOrders(DOMAIN v.count)}

\* utensil_count as the loop over results['utensils'] builds it, for every
\* list of at most MaxDets detections
DetectionViews ==
    {[count |-> CountByClass(dets), keys |-> KeysInOrder(dets)] :
        dets \in SeqsUpTo(Types, MaxDets)}

\* one frame of both programs and of a second run of pi_client.py, with the
\* clock reading taken from times, the number of people from people and
\* utensil_count from views; the second run sees one instance of each class
\* present, the keys in a fixed order, one person if there is any, and a
\* speech engine that works
TickAt(times, people, views) ==
    /\ c_pc = "off"
    \* a program that an exception has left is not running any more
    /\ tick.kind = "tick" => \A p \in Programs : tick.error[p] = "none"
    /\ \E current_time \in times, view \in views, hand_count \in people, speech \in Speech :
        \E utensil_count \in {view.count} :
        \E pi \in {PiTrack(utensil_first_seen, last_alert_time, current_time,
                           utensil_count, hand_count, view.keys, speech)},
           ud \in {DetTrack(d_first_seen, d_last_alert, current_time,
                            utensil_count, hand_count, view.keys, speech)},
           again \in {PiTrack(r_first_seen, r_last_alert, current_time,
                              [t \in DOMAIN utensil_count |-> 1],
                              IF hand_count > 0 THEN 1 ELSE 0,
                              FirstOrder(DOMAIN utensil_count), "ok")},
           since_after \in {SinceAfter(since, current_time, DOMAIN utensil_count,
                                       hand_count)} :
            \* the speech engine is only called for an alert
            /\ speech # "ok" => pi.alerts \cup ud.alerts # {}
            /\ now' = current_time
            /\ utensil_first_seen' = pi.first_seen
            /\ last_alert_time' = pi.last_alert
            /\ d_first_seen' = ud.first_seen
            /\ d_last_alert' = ud.last_alert
            /\ r_first_seen' = again.first_seen
            /\ r_last_alert' = again.last_alert
            /\ tick' = TickRecord(current_time, utensil_count, hand_count,
                                  [p \in Programs |-> IF p = "pi_client" THEN pi ELSE ud],
                                  speech, again)
            /\ since' = since_after
            /\ ended' = EndedAfter(ended, since, since_after, DOMAIN utensil_count)
            /\ alert_log' = [p \in Programs |->
                                LogAfter(alert_log[p],
                                         IF p = "pi_client" THEN pi.alerts ELSE ud.alerts,
                                         current_time)]
    /\ UNCHANGED <<net, cli, srv, hist, limits>>

\* the clock does not go back; nobody or one person is seen
Tick == TickAt(now..MaxTime, {0, 1}, CountViews)

\* any clock reading: the clock may go back, by less or by more than the
\* threshold and the cooldown
TickAnyTime ==
    TickAt({0, UNATTENDED_THRESHOLD, UNATTENDED_THRESHOLD + ALERT_COOLDOWN}, HandCounts,
           CountViews)

\* the clock stands still or moves on by the threshold or by the cooldown;
\* any number of people; any list of detections
TickDetections ==
    TickAt({t \in {now, now + UNATTENDED_THRESHOLD, now + ALERT_COOLDOWN} : t <= MaxTime},
           HandCounts, DetectionViews)

----------------------------------------------------------------------------
(* Specifications *)

Next ==
    \/ ClientStart
    \/ ClientCapture
    \/ ClientInterrupt
    \/ ClientRecvSize
    \/ ClientRecvPayload
    \/ ClientProcess
    \/ ServerAccept
    \/ ServerRecvSize
    \/ ServerRecvPayload
    \/ ServerProcess

\* pi_client.py against server_mac.py
Spec == Init /\ [][Next]_vars

\* either program against an arbitrary peer
InitChan ==
    /\ InitCommon
    /\ \/ c_pc = "peer" /\ s_pc = "accept"
       \/ c_pc = "stopped" /\ s_pc = "peer"
    /\ limits = [runs |-> 1, frames |-> MaxFrames]

NextChan ==
    \/ Next
    \/ PeerSend
    \/ PeerClose
    \/ PeerReply
    \/ PeerServerClose

SpecChan == InitChan /\ [][NextChan]_vars

\* the trackers alone
InitTracker ==
    /\ InitCommon
    /\ c_pc = "off"
    /\ s_pc = "off"
    /\ limits = [runs |-> 0, frames |-> 0]

SpecTracker == InitTracker /\ [][Tick]_vars

\* the trackers alone, with a clock that may be set back
SpecAnyTime == InitTracker /\ [][TickAnyTime]_vars

\* the trackers alone, given lists of detections
SpecDetections == InitTracker /\ [][TickDetections]_vars

----------------------------------------------------------------------------
(* Properties of the frame transport *)

IsPrefix(s, t) == Len(s) <= Len(t) /\ \A i \in 1..Len(s) : s[i] = t[i]

\* the byte strings the server's reassembly has produced in this session
ServerDelivered == got \o (IF s_pc = "process" THEN <<s_frame_data>> ELSE <<>>)
\* the byte strings the client's reassembly has produced in this run
ClientDelivered == recvd \o (IF c_pc = "process" THEN <<c_result_data>> ELSE <<>>)

\* C1: in both directions, what the receiver's reassembly loop yields is, byte
\* for byte, the payloads the sender wrote behind their 8-byte length
\* prefixes, in order, however the stream is split into reads; and once every
\* byte of a fully written message has been read, its payload has been yielded.
C1_RoundTrip ==
    /\ IsPrefix(ServerDelivered, sent)
    /\ IsPrefix(ClientDelivered, replied)
    /\ (s_pc \notin {"peer", "accept"} /\ s_end[1] = "open" /\ c2s[1] = <<>>)
            => ServerDelivered = sent
    /\ (c_pc \notin {"peer", "stopped", "capture"} /\ c_end[1] = "open" /\ s2c[1] = <<>>
            /\ s_conn = 1)
            => ClientDelivered = replied

\* a payload of the greatest length has crossed from the peer to the server
C1_Witness ==
    /\ c_pc = "peer"
    /\ Len(sent) = 1
    /\ got = sent
    /\ Len(got[1]) = MaxPayload

\* C2: once a read of the payload loop has returned b"" (the peer closed
\* after the whole prefix and before msg_size payload bytes), the receive has
\* failed: the server's session is over, the client has left its loop with a
\* receive error.
C2_ShortReadFails ==
    /\ s_spin > 0 => (s_pc = "accept" /\ s_exit = "closed")
    /\ c_spin > 0 => (c_pc = "stopped" /\ c_exit = "recv_error")

\* C3: a byte string is handed to pickle.loads only if its length is the
\* length its prefix declared, on the server and on the client.
C3_NoTruncatedPayload ==
    /\ s_pc = "process" => Len(s_frame_data) = s_msg_size
    /\ c_pc = "process" => Len(c_result_data) = c_msg_size

\* the peer closed in the middle of a payload, the server has read the end of
\* the stream, and the part of the payload it holds has gone nowhere
C3_Witness ==
    /\ s_pc = "recv_payload"
    /\ s_spin > 0
    /\ Len(s_data) > 0
    /\ Len(s_data) < s_msg_size
    /\ got = <<>>

\* C4: when the peer has closed and the stream is drained while the receiver
\* is still reading the prefix (it holds 0 to 7 bytes of it), the receiver's
\* next read ends the receive with an error: the session (the run) is over,
\* the socket is closed, no length is decoded and no payload is handed on.
C4_ShortPrefixFails ==
    [][/\ (s_pc = "recv_size" /\ c_end[s_conn] = "closed" /\ c2s[s_conn] = <<>>
              /\ srv' # srv)
          => /\ s_pc' = "accept"
             /\ s_exit' = "closed"
             /\ s_end'[s_conn] = "closed"
             /\ s_msg_size' = s_msg_size
             /\ got' = got
             /\ replied' = replied
       /\ (c_pc = "recv_size" /\ s_end[c_run] = "closed" /\ s2c[c_run] = <<>>
              /\ cli' # cli /\ c_event' # "interrupted")
          => /\ c_pc' = "stopped"
             /\ c_exit' = "recv_error"
             /\ c_end'[c_run] = "closed"
             /\ c_msg_size' = c_msg_size
             /\ recvd' = recvd]_vars

\* a session ended by a close that left the server with part of a prefix
C4_Witness ==
    /\ s_pc = "accept"
    /\ s_exit = "closed"
    /\ Len(s_data) > 0
    /\ Len(s_data) < PAYLOAD_SIZE
    /\ got = <<>>

\* C5: after the user has stopped the client (the q key or Ctrl-C) and the
\* client has closed its socket, a server that has read the end of that
\* connection is not left in a receive loop on it: it is back in accept.
C5_QuitFreesServer ==
    (/\ c_pc = "stopped"
     /\ c_exit \in {"quit", "interrupt"}
     /\ s_conn = c_run
     /\ s_spin > 0)
        => s_pc = "accept"

\* C6: every step of the server that meets a failure (recv returns b"" on a
\* closed connection, in either loop; the payload does not decode; the
\* detector raises) ends the session: the socket is closed, no result is
\* written, the frame is not processed again, and the server is in accept.
C6_FailureEndsSession ==
    [][(/\ srv' # srv
        /\ \/ /\ s_pc \in {"recv_size", "recv_payload"}
              /\ c_end[s_conn] = "closed"
              /\ c2s[s_conn] = <<>>
           \/ s_pc = "process" /\ PickleRaises(s_frame_data)
           \/ s_pc = "process" /\ s_exit' = "detector_failed")
          => /\ s_pc' = "accept"
             /\ s_end'[s_conn] = "closed"
             /\ s2c' = s2c
             /\ replied' = replied
             /\ s_frame_count' = s_frame_count]_vars

\* C7: the client has sent at most one frame more than it has results, and
\* none more when it is about to send; nothing is in flight then; the server
\* has written one result per frame it has taken, before reading on; and the
\* k-th result the client has is the result of the k-th frame it sent.
C7_Alternation ==
    /\ Len(sent) - Len(recvd) \in {0, 1}
    /\ c_pc = "capture" =>
          /\ Len(sent) = Len(recvd)
          /\ c2s[c_run] = <<>>
          /\ s2c[c_run] = <<>>
    /\ Len(got) - Len(replied) \in {0, 1}
    /\ s_pc # "accept" => Len(got) = Len(replied)
    /\ \A k \in 1..Len(recvd) :
          recvd[k] = PickleDumps(ProcessFrame(PickleLoads(sent[k])))

\* two exchanges with different frames are complete
C7_Witness ==
    /\ Len(sent) = 2
    /\ Len(recvd) = 2
    /\ sent[1] # sent[2]
    /\ c_pc = "capture"

----------------------------------------------------------------------------
(* Properties of the tracker *)

\* the label the classification table gives
Label(hasItems, hasPeople) ==
    CASE ~hasItems /\ ~hasPeople -> "NOTHING"
      [] hasItems /\ ~hasPeople -> "UNATTENDED"
      [] hasItems /\ hasPeople -> "ATTENDED"
      [] ~hasItems /\ hasPeople -> "NOTHING"

\* C8: the label of a tick is the one the table gives for (items present,
\* people present) on that tick, in both programs, whatever the earlier ticks.
C8_LabelOfInputs ==
    tick.kind = "tick" =>
        \A p \in DOMAIN tick.state :
            tick.state[p] = Label(tick.present # {}, tick.hands > 0)

\* people without utensils, after a tick that had an unattended utensil: NOTHING
C8_Witness ==
    /\ tick.kind = "tick"
    /\ tick.present = {}
    /\ tick.hands > 0
    /\ tick.state["pi_client"] = "NOTHING"
    /\ tick.state["utensil_detector"] = "NOTHING"
    /\ alert_log["pi_client"]["fork"] # <<>>

\* no alert for t was emitted before its current unattended period
NoEarlierAlert(p, t) ==
    \A i \in 1..Len(alert_log[p][t]) : alert_log[p][t][i] > since[t]

\* C9: for a type unattended since since[t] with no alert before that period:
\* while now - since[t] < UNATTENDED_THRESHOLD no alert for it has been
\* emitted; on a tick with now - since[t] = UNATTENDED_THRESHOLD the alert has
\* been emitted, at that timestamp, exactly once however many ticks carry it.
C9_ThresholdBoundary ==
    tick.kind = "tick" =>
        \A p \in DOMAIN tick.alerts : \A t \in DOMAIN since :
            /\ now - since[t] < UNATTENDED_THRESHOLD =>
                  /\ t \notin tick.alerts[p]
                  /\ NoEarlierAlert(p, t) => alert_log[p][t] = <<>>
            /\ (now - since[t] = UNATTENDED_THRESHOLD /\ NoEarlierAlert(p, t)) =>
                  alert_log[p][t] = <<now>>

\* a second tick at the timestamp of the first alert: it emitted nothing
C9_Witness ==
    /\ tick.kind = "tick"
    /\ "fork" \in DOMAIN since
    /\ now - since["fork"] = UNATTENDED_THRESHOLD
    /\ alert_log["pi_client"]["fork"] = <<now>>
    /\ alert_log["utensil_detector"]["fork"] = <<now>>
    /\ tick.alerts["pi_client"] = {}
    /\ tick.alerts["utensil_detector"] = {}

\* C10: two alerts for the same type are at least ALERT_COOLDOWN apart, in
\* both programs.
C10_Cooldown ==
    \A p \in Programs : \A t \in Types :
        Len(alert_log[p][t]) = 2 =>
            alert_log[p][t][2] - alert_log[p][t][1] >= ALERT_COOLDOWN

\* a fork unattended without a break since 0 has alerted twice
C10_Witness ==
    /\ "fork" \in DOMAIN since
    /\ since["fork"] = 0
    /\ Len(alert_log["pi_client"]["fork"]) = 2
    /\ Len(alert_log["utensil_detector"]["fork"]) = 2


\* the time of the last alert of program p for type t
LastAlert(p, t) == alert_log[p][t][Len(alert_log[p][t])]

\* C11: for a type whose last unattended period was ended by attendance and
\* that is unattended again, utensil_first_seen holds the timestamp of the
\* first tick of the new period, so the elapsed time is counted from there.
C11_ResetOnAttendance ==
    \A t \in DOMAIN since :
        ended[t] = "attended" =>
            /\ t \in DOMAIN utensil_first_seen
            /\ utensil_first_seen[t] = since[t]

\* a fork that alerted in an earlier period, was attended, and has now been
\* unattended again for one second
C11_Witness ==
    /\ "fork" \in DOMAIN since
    /\ ended["fork"] = "attended"
    /\ alert_log["pi_client"]["fork"] # <<>>
    /\ alert_log["pi_client"]["fork"][1] < since["fork"]
    /\ now = since["fork"] + 1
    /\ utensil_first_seen["fork"] = since["fork"]

\* C12: an entry created for a new unattended period has no last alert: on a
\* tick with now - firstUnattendedAt >= UNATTENDED_THRESHOLD the alert of that
\* period has been emitted, whatever alerts earlier periods emitted.
C12_FreshEntryAlerts ==
    tick.kind = "tick" =>
        \A p \in Programs : \A t \in DOMAIN since :
            now - since[t] >= UNATTENDED_THRESHOLD =>
                /\ alert_log[p][t] # <<>>
                /\ LastAlert(p, t) > since[t]

\* C13: while a type stays unattended after an alert at time a of this
\* period, no alert for it is emitted before a + ALERT_COOLDOWN, and a tick
\* with now >= a + ALERT_COOLDOWN emits one.
C13_RepeatAlerts ==
    tick.kind = "tick" =>
        \A p \in Programs : \A t \in DOMAIN since :
            (alert_log[p][t] # <<>> /\ LastAlert(p, t) > since[t]) =>
                /\ now - LastAlert(p, t) < ALERT_COOLDOWN
                /\ t \in tick.alerts[p] => LastAlert(p, t) = now
                /\ (Len(alert_log[p][t]) = 2 /\ alert_log[p][t][1] > since[t]) =>
                       alert_log[p][t][2] - alert_log[p][t][1] >= ALERT_COOLDOWN

\* the repeat alert of a fork unattended since 0, on the tick at threshold
\* plus cooldown
C13_Witness ==
    /\ tick.kind = "tick"
    /\ "fork" \in DOMAIN since
    /\ since["fork"] = 0
    /\ now = UNATTENDED_THRESHOLD + ALERT_COOLDOWN
    /\ alert_log["pi_client"]["fork"] = <<UNATTENDED_THRESHOLD, now>>
    /\ "fork" \in tick.alerts["pi_client"]

\* C14: after every tick the keys of utensil_first_seen are detected types;
\* the map is empty unless the tick was UNATTENDED, and after an UNATTENDED
\* tick its key set is the detected set (both programs).
C14_TimerMap ==
    tick.kind = "tick" =>
        /\ DOMAIN utensil_first_seen \subseteq tick.present
        /\ DOMAIN d_first_seen \subseteq tick.present
        /\ tick.state["pi_client"] # "UNATTENDED" => utensil_first_seen = EmptyDict
        /\ tick.state["utensil_detector"] # "UNATTENDED" => d_first_seen = EmptyDict
        /\ tick.state["pi_client"] = "UNATTENDED" => DOMAIN utensil_first_seen = tick.present
        /\ tick.state["utensil_detector"] = "UNATTENDED" => DOMAIN d_first_seen = tick.present

\* the fork that was being timed is gone, the knife alone is unattended
C14_Witness ==
    /\ tick.kind = "tick"
    /\ tick.state["pi_client"] = "UNATTENDED"
    /\ tick.present = {"knife"}
    /\ ended["fork"] = "gone"
    /\ DOMAIN utensil_first_seen = {"knife"}
    /\ DOMAIN d_first_seen = {"knife"}

\* C15: two runs of pi_client.py from the empty tracker that are given the
\* same ticks give the same label and the same alerts on every tick and are
\* in the same tracker state after it, whatever the order of the keys and
\* whatever the speech engine does.
C15_Deterministic ==
    tick.kind = "tick" =>
        /\ tick.state["pi_client"] = tick.ref.state
        /\ tick.alerts["pi_client"] = tick.ref.alerts
        /\ utensil_first_seen = r_first_seen
        /\ last_alert_time = r_last_alert

\* both types detected, one run had a failing speech engine, both runs
\* alerted for the fork only
C15_Witness ==
    /\ tick.kind = "tick"
    /\ tick.present = Types
    /\ tick.speech = "raises"
    /\ tick.alerts["pi_client"] = {"fork"}
    /\ tick.ref.alerts = {"fork"}

\* C16: on a tick whose speech call raised, no exception leaves the tracker,
\* last_alert_time of every alerted type is the tick's time, and the tracker
\* is in the state it is in after the same tick with a working speech engine.
C16_SpeechFailureSwallowed ==
    (tick.kind = "tick" /\ tick.speech = "raises") =>
        /\ \A p \in Programs : tick.error[p] = "none"
        /\ \A t \in tick.alerts["pi_client"] :
              t \in DOMAIN last_alert_time /\ last_alert_time[t] = now
        /\ \A t \in tick.alerts["utensil_detector"] :
              t \in DOMAIN d_last_alert /\ d_last_alert[t] = now
        /\ utensil_first_seen = r_first_seen
        /\ last_alert_time = r_last_alert
        /\ DOMAIN d_first_seen = tick.present

\* the speech call raised on a tick that alerted for both types
C16_Witness ==
    /\ tick.kind = "tick"
    /\ tick.speech = "raises"
    /\ tick.alerts["pi_client"] = Types
    /\ tick.alerts["utensil_detector"] = Types
    /\ last_alert_time = [t \in Types |-> now]

\* C20: no pass of the tracker raises, for any detected set, any number of
\* people and any clock reading, the clock going back included.
C20_Total ==
    tick.kind = "tick" => tick.error["pi_client"] = "none"

\* a pass with both types and two people at a clock reading before the last
\* alert
C20_Witness ==
    /\ tick.kind = "tick"
    /\ tick.present = Types
    /\ tick.hands = 2
    /\ "fork" \in DOMAIN last_alert_time
    /\ now < last_alert_time["fork"]
    /\ tick.error["pi_client"] = "none"


----------------------------------------------------------------------------
(* Properties of the sessions *)

\* C17: every step of the client that meets a channel failure (sendall
\* raises; recv returns b"" on a closed connection, in either loop; the result
\* does not decode) leaves the capture loop: no further frame is sent, the
\* tracker is not updated, no alert is emitted, and the socket is closed.
C17_ChannelFailureFatal ==
    [][(\/ c_pc = "capture" /\ c_event' = "send_failed"
        \/ /\ c_pc \in {"recv_size", "recv_payload"}
           /\ s_end[c_run] = "closed"
           /\ s2c[c_run] = <<>>
           /\ cli' # cli
           /\ c_event' # "interrupted"
        \/ c_pc = "process" /\ PickleRaises(c_result_data) /\ cli' # cli)
          => /\ c_pc' = "stopped"
             /\ c_end'[c_run] = "closed"
             /\ sent' = sent
             /\ trk' = trk
             /\ tick' = tick]_vars

\* the bytes are a head of a message that pi_client.py can write
IsHead(bytes) ==
    \E frame \in Scenes :
        \E k \in 0..Len(Message(PickleDumps(frame))) :
            bytes = Take(Message(PickleDumps(frame)), k)

\* C18: at most one accepted connection is open, and it is the one of the
\* current session; in accept none is open; of a connection that waits in
\* the backlog nothing has been read.
C18_SingleSession ==
    /\ Cardinality({r \in Runs : s_end[r] = "open"}) <= 1
    /\ \A r \in Runs : s_end[r] = "open" => (r = s_conn /\ s_pc # "accept")
    /\ \A r \in Runs : s_end[r] = "pending" => IsHead(c2s[r])

\* the server is still in the first session while the second client's frame
\* waits in the backlog
C18_Witness ==
    /\ s_conn = 1
    /\ s_pc = "recv_size"
    /\ s_end[1] = "open"
    /\ s_end[2] = "pending"
    /\ Len(c2s[2]) > PAYLOAD_SIZE

\* C19: in every session the bytes the server holds and the bytes it has yet
\* to read are a head of a message of this connection's client, whatever an
\* earlier session left in the buffer, and frame_count counts the frames of
\* this session.
C19_NoDataAcrossSessions ==
    /\ s_pc = "recv_size" => IsHead(s_data \o c2s[s_conn])
    /\ s_pc = "recv_payload" => IsHead(Pack(s_msg_size) \o s_data \o c2s[s_conn])
    /\ s_pc # "accept" => s_frame_count = Len(replied)

\* the second session has taken its client's frame whole although the first
\* session ended with bytes in the buffer
C19_Witness ==
    /\ s_conn = 2
    /\ s_dropped > 0
    /\ Len(got) = 1
    /\ got = sent

\* C21: a run whose connect failed has ended at once, with the failure as its
\* reason: it has no connection, has written no byte, has sent no frame and
\* received no result, its frame counter is 0 and its tracker has not run.
C21_ConnectFailureFatal ==
    c_exit = "connect_failed" =>
        /\ c_pc = "stopped"
        /\ c_end[c_run] = "none"
        /\ s_end[c_run] = "none"
        /\ c2s[c_run] = <<>>
        /\ sent = <<>>
        /\ recvd = <<>>
        /\ c_frame_count = 0
        /\ tick = NoTick
        /\ utensil_first_seen = EmptyDict
        /\ last_alert_time = EmptyDict

\* the second run could not connect, after a first run that exchanged a frame
\* and left a timer behind
C21_Witness ==
    /\ c_run = 2
    /\ c_exit = "connect_failed"
    /\ c_event = "start"
    /\ s_conn = 1
    /\ Len(replied) = 1

\* C22: after every tick no type absent from the detected set has a timer
\* entry, whatever the label of the tick; and a type whose last unattended
\* period was ended by its disappearance and that is unattended again has an
\* entry whose time is the first tick of the new period (both programs).
C22_DisappearanceResets ==
    tick.kind = "tick" =>
        /\ \A t \in Types \ tick.present :
              t \notin DOMAIN utensil_first_seen /\ t \notin DOMAIN d_first_seen
        /\ \A t \in DOMAIN since :
              ended[t] = "gone" =>
                  /\ t \in DOMAIN utensil_first_seen
                  /\ utensil_first_seen[t] = since[t]
                  /\ t \in DOMAIN d_first_seen
                  /\ d_first_seen[t] = since[t]

\* a fork that went missing while the knife stayed unattended is back on
\* this tick, timed from now although it had been seen before
C22_Witness ==
    /\ tick.kind = "tick"
    /\ tick.present = Types
    /\ ended["fork"] = "gone"
    /\ "fork" \in DOMAIN since
    /\ "knife" \in DOMAIN since
    /\ since["knife"] < since["fork"]
    /\ since["fork"] = now
    /\ utensil_first_seen["fork"] = now
    /\ d_first_seen["fork"] = now

\* the sequence has no element twice
NoRepeat(q) == \A i, j \in 1..Len(q) : i # j => q[i] # q[j]

\* C23: a run given any numbers of instances and of people and a run given
\* one instance of each class present and one person if there is any have the
\* same label and the same alerts on every tick and the same timer and
\* last-alert maps after it; and no tick prints two alerts for one class.
C23_PerClassKeying ==
    tick.kind = "tick" =>
        /\ tick.state["pi_client"] = tick.ref.state
        /\ tick.alerts["pi_client"] = tick.ref.alerts
        /\ utensil_first_seen = r_first_seen
        /\ last_alert_time = r_last_alert
        /\ NoRepeat(tick.printed["pi_client"])
        /\ NoRepeat(tick.printed["utensil_detector"])

\* two forks and a knife on the tick that alerts: one alert for each class,
\* as in the run that saw one fork
C23_Witness ==
    /\ tick.kind = "tick"
    /\ tick.present = Types
    /\ tick.count["fork"] = 2
    /\ tick.alerts["pi_client"] = Types
    /\ Len(tick.printed["pi_client"]) = 2
    /\ tick.ref.alerts = Types

\* the timer map of program p
FirstSeenOf(p) == IF p = "pi_client" THEN utensil_first_seen ELSE d_first_seen

\* C24: every alert a tick emits is for a type that the tick detected, under
\* the label UNATTENDED, and that had a timer entry (and was in an unattended
\* period) before the tick; so the tick that creates an entry does not alert
\* for it and a NOTHING or ATTENDED tick does not alert at all.
C24_AlertsOnlyUnattended ==
    [][tick'.kind = "tick" =>
          \A p \in Programs : \A t \in tick'.alerts[p] :
              /\ tick'.state[p] = "UNATTENDED"
              /\ t \in tick'.present
              /\ t \in DOMAIN FirstSeenOf(p)
              /\ t \in DOMAIN since]_vars

\* a tick that alerted for the fork and created the entry of the knife,
\* without an alert for the knife, although the knife alerted in the past
C24_Witness ==
    /\ tick.kind = "tick"
    /\ tick.state["pi_client"] = "UNATTENDED"
    /\ tick.alerts["pi_client"] = {"fork"}
    /\ tick.alerts["utensil_detector"] = {"fork"}
    /\ "knife" \in DOMAIN since
    /\ since["knife"] = now
    /\ utensil_first_seen["knife"] = now
    /\ alert_log["pi_client"]["knife"] # <<>>

\* C25: against server_mac.py, the client starts a receive with an empty
\* buffer; while it reads a payload, its buffer and the bytes still in flight
\* are no more than the declared length; and when the receive ends the buffer
\* is the result, byte for byte, with nothing left in flight, so that
\* data[:msg_size] and the next data = b"" drop no byte.
C25_DiscardDropsNothing ==
    /\ (c_pc = "recv_size" /\ c_event = "sent") => c_data = <<>>
    /\ c_pc = "recv_payload" => Len(c_data) + Len(s2c[c_run]) <= c_msg_size
    /\ c_pc = "process" =>
          /\ Len(c_data) = c_msg_size
          /\ c_data = c_result_data
          /\ s2c[c_run] = <<>>

\* the second receive of a run has ended with the result of a frame that
\* shows a fork and a knife
C25_Witness ==
    /\ c_pc = "process"
    /\ Len(recvd) = 1
    /\ Len(sent) = 2
    /\ c_msg_size = 3
    /\ c_data = PickleDumps([hands |-> 0, dets |-> <<"fork", "knife">>])
    /\ c_result_data = c_data

\* C26: pi_client.py and utensil_detector.py, started with empty maps and
\* given the same ticks, give every tick the same label, emit the same alerts
\* in the same order on it, and hold the same timer map and the same
\* last-alert map after it.
C26_TrackersEquivalent ==
    tick.kind = "tick" =>
        /\ tick.state["pi_client"] = tick.state["utensil_detector"]
        /\ tick.alerts["pi_client"] = tick.alerts["utensil_detector"]
        /\ tick.printed["pi_client"] = tick.printed["utensil_detector"]
        /\ tick.error["pi_client"] = tick.error["utensil_detector"]
        /\ utensil_first_seen = d_first_seen
        /\ last_alert_time = d_last_alert

\* both programs have just alerted for the knife alone, hold a timer for both
\* types and an older last alert for the fork
C26_Witness ==
    /\ tick.kind = "tick"
    /\ tick.printed["pi_client"] = <<"knife">>
    /\ tick.printed["utensil_detector"] = <<"knife">>
    /\ DOMAIN utensil_first_seen = Types
    /\ DOMAIN d_first_seen = Types
    /\ DOMAIN last_alert_time = Types
    /\ DOMAIN d_last_alert = Types
    /\ last_alert_time["fork"] < now
    /\ d_last_alert["knife"] = now

\* C27: the step of the client on which cap.read() fails changes nothing but
\* the report of the failure: no byte is written or read, no frame is counted
\* as sent or received, the timer map, the last-alert map and frame_count are
\* unchanged, and the client is at cap.read() again.
C27_FailedCaptureNoOp ==
    [][(c_pc = "capture" /\ c_event # "capture_failed" /\ c_event' = "capture_failed")
          => /\ c_pc' = "capture"
             /\ net' = net
             /\ hist' = hist
             /\ trk' = trk
             /\ c_frame_count' = c_frame_count
             /\ tick' = tick
             /\ srv' = srv]_vars

\* a capture has failed after a complete exchange that left a timer: the
\* exchange, the timer and the frame counter are as they were
C27_Witness ==
    /\ c_pc = "capture"
    /\ c_event = "capture_failed"
    /\ Len(sent) = 1
    /\ Len(recvd) = 1
    /\ c_frame_count = 1
    /\ DOMAIN utensil_first_seen = Types
    /\ c2s[c_run] = <<>>
    /\ s2c[c_run] = <<>>

====
